---- MODULE Spec2Model ----
(***************************************************************************)
(* PageRank over a small closed corpus (src/pagerank.py): the graph        *)
(* builder crawl, the transition model, the sampling estimator and the     *)
(* iterative estimator.                                                    *)
(*                                                                         *)
(* Numbers.  The program computes with Python floats.  A run of the model  *)
(* computes either in real arithmetic, every expression having its exact   *)
(* rational value [num, den] in lowest terms, or in the program's own      *)
(* doubles (IEEE 754 binary64, round to nearest even), bit for bit.  The   *)
(* runs over arbitrary graphs are in real arithmetic; the runs of          *)
(* iterate_pagerank over unlinked pages, where the ranks are compared for  *)
(* equality, are in doubles.                                               *)
(*                                                                         *)
(* Pages.  A dict iterates in insertion order, so the pages of a corpus    *)
(* are numbered 1..N in that order and a corpus is a function from 1..N    *)
(* to sets of pages.  File names of the crawled directory are pairs        *)
(* <<stem, suffix>>.                                                       *)
(***************************************************************************)
EXTENDS Integers, Sequences, FiniteSets, TLC

VARIABLES
    pc,         \* position in the function being run
    dir,        \* crawl: the directory, file name -> raw link targets found in it
    pages,      \* crawl: the dict `pages` under construction
    corpus,     \* the corpus graph handed to the transition model / estimators
    damping,    \* damping_factor
    arith,      \* the arithmetic of the run: "real" (the exact value of every
                \* expression) or "double" (Python's floats)
    page,       \* transition_model's argument / the sampler's current page
    n,          \* sample_pagerank's sample count
    i,          \* loop position: draws done (sampler), page being relaxed (iteration)
    visits,     \* sample_pagerank's dict `pagerank` while it holds visit counters
    heap,       \* iterate_pagerank: dict objects by identity
    pagerank,   \* iterate_pagerank: the object `pagerank` names
    new_rank,   \* iterate_pagerank: the object `new_rank` names
    converged,  \* iterate_pagerank: the loop flag
    passes,     \* history: relaxation passes started so far (saturating)
    snapshot,   \* history: the rank mapping as it stood when the current pass started
    result,     \* the returned value
    error       \* the exception raised, "none" when there is none

vars == <<pc, dir, pages, corpus, damping, arith, page, n, i, visits, heap, pagerank,
          new_rank, converged, passes, snapshot, result, error>>

-----------------------------------------------------------------------------
(* Bounds of the model *)

MaxPages == 3

MaxDocs == 2

MaxSamples == 3

MaxPasses == 12

MaxUnlinked == 6

None == "None"

-----------------------------------------------------------------------------
(* Exact rational arithmetic *)
(* The operations are functions: a function is applied to the value of its *)
(* argument, so that an operand is evaluated once.                         *)

Abs(x) == IF x < 0 THEN -x ELSE x

Min(a, b) == IF a < b THEN a ELSE b

\* Euclid's algorithm on a pair of naturals
Euclid[ab \in Nat \X Nat] ==
    IF ab[2] = 0 THEN ab[1] ELSE Euclid[<<ab[2], ab[1] % ab[2]>>]

Gcd(a, b) == Euclid[<<a, b>>]

Lcm(a, b) == (a \div Gcd(a, b)) * b

\* the rationals: records [num, den] with den > 0
Rats == [num : Int, den : Nat \ {0}]

\* a / b in lowest terms, b > 0
Reduced[a \in Int, b \in Nat] ==
    LET g == Gcd(Abs(a), b)
    IN  [num |-> a \div g, den |-> b \div g]

Rat(a, b) == Reduced[a, b]

Zero == [num |-> 0, den |-> 1]

One == [num |-> 1, den |-> 1]

Sum2[x \in Rats, y \in Rats] ==
    LET l == Lcm(x.den, y.den)
    IN  Rat(x.num * (l \div x.den) + y.num * (l \div y.den), l)

Neg(x) == [num |-> -x.num, den |-> x.den]

\* x * y for x and y in lowest terms: cancelling across gives lowest terms
Product[x \in Rats, y \in Rats] ==
    LET g1 == Gcd(Abs(x.num), y.den)
        g2 == Gcd(Abs(y.num), x.den)
    IN  [num |-> (x.num \div g1) * (y.num \div g2),
         den |-> (x.den \div g2) * (y.den \div g1)]

\* a/b < c/d for q = <<a, b, c, d>> with a, c >= 0 and b, d > 0, by continued
\* fractions (no products)
FracLess[q \in Nat \X Nat \X Nat \X Nat] ==
    LET qa == q[1] \div q[2]
        qc == q[3] \div q[4]
        ra == q[1] % q[2]
        rc == q[3] % q[4]
    IN  IF qa # qc THEN qa < qc
        ELSE IF rc = 0 THEN FALSE
        ELSE IF ra = 0 THEN TRUE
        ELSE FracLess[<<q[4], rc, q[2], ra>>]

-----------------------------------------------------------------------------
(* Natural numbers of any size: sequences of limbs, least significant first, *)
(* without a zero at the top; <<>> is 0                                      *)

Base == 2^15

Limb(x, j) == IF j >= 1 /\ j <= Len(x) THEN x[j] ELSE 0

RECURSIVE Trim(_)
Trim(x) ==
    IF x = <<>> THEN x
    ELSE IF x[Len(x)] = 0 THEN Trim(SubSeq(x, 1, Len(x) - 1)) ELSE x

RECURSIVE AddFrom(_, _, _, _)
AddFrom(x, y, j, c) ==
    IF j > Len(x) /\ j > Len(y)
    THEN IF c = 0 THEN <<>> ELSE <<c>>
    ELSE LET s == Limb(x, j) + Limb(y, j) + c
         IN  <<s % Base>> \o AddFrom(x, y, j + 1, s \div Base)

BigAdd(x, y) == AddFrom(x, y, 1, 0)

RECURSIVE SubFrom(_, _, _, _)
SubFrom(x, y, j, borrow) ==
    IF j > Len(x) THEN <<>>
    ELSE LET s == x[j] - Limb(y, j) - borrow
         IN  <<IF s < 0 THEN s + Base ELSE s>>
                \o SubFrom(x, y, j + 1, IF s < 0 THEN 1 ELSE 0)

\* x - y for x >= y
BigSub(x, y) == Trim(SubFrom(x, y, 1, 0))

RECURSIVE LessAt(_, _, _)
LessAt(x, y, j) ==
    IF j = 0 THEN FALSE
    ELSE IF x[j] # y[j] THEN x[j] < y[j] ELSE LessAt(x, y, j - 1)

BigLess(x, y) ==
    IF Len(x) # Len(y) THEN Len(x) < Len(y) ELSE LessAt(x, y, Len(x))

RECURSIVE MulFrom(_, _, _, _)
MulFrom(x, k, j, c) ==
    IF j > Len(x)
    THEN IF c = 0 THEN <<>> ELSE <<c>>
    ELSE LET s == x[j] * k + c
         IN  <<s % Base>> \o MulFrom(x, k, j + 1, s \div Base)

\* x * k for 0 <= k <= Base
BigMulSmall(x, k) == Trim(MulFrom(x, k, 1, 0))

\* x * Base^a
ShiftLimbs(x, a) == IF x = <<>> THEN x ELSE [j \in 1..a |-> 0] \o x

RECURSIVE MulAcc(_, _, _)
MulAcc(x, y, j) ==
    IF j > Len(y) THEN <<>>
    ELSE BigAdd(ShiftLimbs(BigMulSmall(x, y[j]), j - 1), MulAcc(x, y, j + 1))

BigMul(x, y) == MulAcc(x, y, 1)

RECURSIVE DivFrom(_, _, _, _)
DivFrom(x, k, j, r) ==
    IF j = 0 THEN [q |-> <<>>, r |-> r]
    ELSE LET cur == r * Base + x[j]
             rest == DivFrom(x, k, j - 1, cur % k)
         IN  [q |-> Append(rest.q, cur \div k), r |-> rest.r]

\* quotient and remainder of x by k, 0 < k <= Base
BigDivSmall(x, k) ==
    LET d == DivFrom(x, k, Len(x), 0) IN [q |-> Trim(d.q), r |-> d.r]

BitLength(x) ==
    IF x = <<>> THEN 0
    ELSE 15 * (Len(x) - 1)
         + (CHOOSE b \in 1..15 : 2^(b - 1) <= x[Len(x)] /\ x[Len(x)] < 2^b)

\* x * 2^s
ShiftLeft(x, s) == ShiftLimbs(BigMulSmall(x, 2^(s % 15)), s \div 15)

\* x \div 2^s
ShiftRight(x, s) ==
    IF s \div 15 >= Len(x) THEN <<>>
    ELSE BigDivSmall(SubSeq(x, s \div 15 + 1, Len(x)), 2^(s % 15)).q

\* bit j of x, bit 0 the least significant
Bit(x, j) == (Limb(x, j \div 15 + 1) \div 2^(j % 15)) % 2

LowBitsZero(x, s) == ShiftLeft(ShiftRight(x, s), s) = x

-----------------------------------------------------------------------------
(* Python floats: IEEE 754 binary64, round to nearest, ties to even.  A      *)
(* double is [neg, m, e] of value (-1)^neg * m * 2^e with 2^52 <= m < 2^53,  *)
(* or m = 0 and e = 0.  The exponent is unbounded (the values of the runs    *)
(* lie far from overflow and from the subnormals); a zero carries no sign.   *)

Precision == 53

Doubles == [neg : BOOLEAN, m : Seq(0..(Base - 1)), e : Int]

DZero == [neg |-> FALSE, m |-> <<>>, e |-> 0]

\* the double nearest to x * 2^e, or to a value strictly between x * 2^e and
\* (x + 1) * 2^e when inexact (then x has at least Precision + 2 bits)
RoundToDouble(x, e, inexact) ==
    IF x = <<>> THEN DZero
    ELSE LET L == BitLength(x)
         IN  IF L <= Precision
             THEN [neg |-> FALSE, m |-> ShiftLeft(x, Precision - L),
                   e |-> e - (Precision - L)]
             ELSE LET s == L - Precision
                      q == ShiftRight(x, s)
                      up == /\ Bit(x, s - 1) = 1
                            /\ \/ inexact
                               \/ ~LowBitsZero(x, s - 1)
                               \/ Bit(q, 0) = 1
                      r == IF up THEN BigAdd(q, <<1>>) ELSE q
                  IN  IF BitLength(r) > Precision
                      THEN [neg |-> FALSE, m |-> ShiftRight(r, 1), e |-> e + s + 1]
                      ELSE [neg |-> FALSE, m |-> r, e |-> e + s]

\* float(k) for an int 0 <= k < Base
FromInt(k) == RoundToDouble(IF k = 0 THEN <<>> ELSE <<k>>, 0, FALSE)

DNeg(a) == IF a.m = <<>> THEN a ELSE [a EXCEPT !.neg = ~a.neg]

DAbs(a) == [a EXCEPT !.neg = FALSE]

\* |a| < |b|
MagLess(a, b) ==
    IF b.m = <<>> THEN FALSE
    ELSE IF a.m = <<>> THEN TRUE
    ELSE IF a.e # b.e THEN a.e < b.e
    ELSE BigLess(a.m, b.m)

DLess(a, b) ==
    IF a.neg # b.neg THEN a.neg
    ELSE IF a.neg THEN MagLess(b, a) ELSE MagLess(a, b)

\* |a| + |b| and | |a| - |b| |, rounded
MagSum(a, b) ==
    LET lo == Min(a.e, b.e)
    IN  RoundToDouble(BigAdd(ShiftLeft(a.m, a.e - lo), ShiftLeft(b.m, b.e - lo)),
                      lo, FALSE)

MagDiff(a, b) ==
    LET hi == IF MagLess(a, b) THEN b ELSE a
        lw == IF MagLess(a, b) THEN a ELSE b
        lo == Min(a.e, b.e)
    IN  RoundToDouble(BigSub(ShiftLeft(hi.m, hi.e - lo), ShiftLeft(lw.m, lw.e - lo)),
                      lo, FALSE)

DAdd(a, b) ==
    IF a.m = <<>> THEN b
    ELSE IF b.m = <<>> THEN a
    ELSE IF a.neg = b.neg THEN [MagSum(a, b) EXCEPT !.neg = a.neg]
    ELSE LET d == MagDiff(a, b)
         IN  IF d.m = <<>> THEN d
             ELSE [d EXCEPT !.neg = IF MagLess(a, b) THEN b.neg ELSE a.neg]

DSub(a, b) == DAdd(a, DNeg(b))

DMul(a, b) ==
    IF a.m = <<>> \/ b.m = <<>> THEN DZero
    ELSE [RoundToDouble(BigMul(a.m, b.m), a.e + b.e, FALSE)
             EXCEPT !.neg = (a.neg # b.neg)]

\* a / float(k) for an int 0 < k < Base
DDivInt(a, k) ==
    IF a.m = <<>> THEN DZero
    ELSE LET d == BigDivSmall(ShiftLeft(a.m, 30), k)
         IN  [RoundToDouble(d.q, a.e - 30, d.r # 0) EXCEPT !.neg = a.neg]

-----------------------------------------------------------------------------
(* Numbers.  A number is an exact rational (an int of the program, or a      *)
(* value of a run in real arithmetic) or a double.  An operation on two      *)
(* rationals is exact; as in Python, an operation with a double operand      *)
(* converts the other operand to a double and rounds its result.             *)

Numbers == Rats \cup Doubles

IsDouble(x) == "m" \in DOMAIN x

\* float(x) for an int x; for a rational a/b with |a|, b < Base the double
\* nearest to it, which is the double its decimal literal denotes
ToDouble(x) ==
    IF IsDouble(x) THEN x
    ELSE [DDivInt(FromInt(Abs(x.num)), x.den) EXCEPT !.neg = (x.num < 0)]

Plus[x \in Numbers, y \in Numbers] ==
    IF IsDouble(x) \/ IsDouble(y)
    THEN DAdd(ToDouble(x), ToDouble(y))
    ELSE Sum2[x, y]

Add(x, y) == Plus[x, y]

Minus[x \in Numbers, y \in Numbers] ==
    IF IsDouble(x) \/ IsDouble(y)
    THEN DSub(ToDouble(x), ToDouble(y))
    ELSE Sum2[x, Neg(y)]

Sub(x, y) == Minus[x, y]

Times[x \in Numbers, y \in Numbers] ==
    IF IsDouble(x) \/ IsDouble(y)
    THEN DMul(ToDouble(x), ToDouble(y))
    ELSE Product[x, y]

Mul(x, y) == Times[x, y]

\* x / k for an int k > 0
Over[x \in Numbers, k \in Nat] ==
    IF IsDouble(x) THEN DDivInt(x, k) ELSE Product[x, Rat(1, k)]

DivInt(x, k) == Over[x, k]

\* abs(x)
Magnitude[x \in Numbers] ==
    IF IsDouble(x) THEN DAbs(x) ELSE [num |-> Abs(x.num), den |-> x.den]

AbsVal(x) == Magnitude[x]

\* x > y, for rationals x, y >= 0
Exceeds[x \in Numbers, y \in Numbers] ==
    IF IsDouble(x) \/ IsDouble(y)
    THEN DLess(ToDouble(y), ToDouble(x))
    ELSE FracLess[<<y.num, y.den, x.num, x.den>>]

Greater(x, y) == Exceeds[x, y]

\* the sum of the values of a mapping over 1..N, in the order of its keys,
\* starting from the int 0
SumSeq[f \in Seq(Numbers)] ==
    IF f = <<>> THEN Zero
    ELSE Plus[SumSeq[SubSeq(f, 1, Len(f) - 1)], f[Len(f)]]

Total(f) == SumSeq[f]

\* a / b for ints a >= 0 and b > 0: Python's true division, which gives a float
TrueDiv(a, b) == IF arith = "double" THEN ToDouble(Rat(a, b)) ELSE Rat(a, b)

-----------------------------------------------------------------------------
(* Inputs *)

\* DAMPING = 0.85 and other damping factors in [0, 1]
DAMPING == Rat(17, 20)

Dampings == {Zero, Rat(1, 4), Rat(1, 2), DAMPING, One}

\* the damping factors of the sampler's runs: only the set of pages of positive
\* weight depends on the factor, and every factor strictly between 0 and 1
\* gives the same set
SampleDampings == {Zero, DAMPING, One}

\* the damping factors of the full runs of the iteration: the exact ranks of a
\* run that needs more passes outgrow the integers of the model checker
IterDampings == {Zero, Rat(1, 4), Rat(1, 2)}

\* corpus graphs of 1..MaxPages pages whose link sets are subsets of the keys
ClosedGraphs ==
    UNION {[1..k -> SUBSET (1..k)] : k \in 1..MaxPages}

\* the graphs crawl can return: closed and without self-links
CrawledGraphs == {g \in ClosedGraphs : \A p \in DOMAIN g : p \notin g[p]}

EmptyGraph == <<>>

\* closed graphs with self-links allowed, of fewer than MaxPages pages
SmallClosedGraphs ==
    UNION {[1..k -> SUBSET (1..k)] : k \in 1..(MaxPages - 1)}

\* the damping factors of the single passes
PassDampings == {Zero, DAMPING, One}

\* k mutually unlinked pages
Unlinked(k) == [p \in 1..k |-> {}]

DanglingGraphs == {Unlinked(k) : k \in 1..MaxPages}

\* damping factors passed as floats
DoubleDampings == {ToDouble(d) : d \in Dampings}

\* the entries of the rank mappings a single pass is started from
RankValues == {Zero, Rat(1, 2), One}

\* rank mappings over 1..k with entries in RankValues that sum to 1
RankMappings(k) == {f \in [1..k -> RankValues] : Total(f) = One}

-----------------------------------------------------------------------------
(* crawl *)

Html == ".html"

DocNames == {<<k, Html>> : k \in 1..MaxDocs}

\* a file of the directory that is no page, and a page that is not in the directory
OtherFile == <<0, ".txt">>

Absent == <<0, Html>>

Targets == DocNames \cup {OtherFile, Absent}

\* filename.endswith(".html")
EndsWithHtml(filename) == filename[2] = Html

\* a directory: the raw link targets of each document in it, with or without
\* the file that is no page
DirOf(links, withOther) ==
    [f \in DOMAIN links \cup (IF withOther THEN {OtherFile} ELSE {}) |->
        IF f \in DOMAIN links THEN links[f] ELSE {}]

Directories ==
    {DirOf(links, o) :
        links \in UNION {[fs -> SUBSET Targets] : fs \in SUBSET DocNames},
        o \in BOOLEAN}

\* mutant of RawOutbound: the page itself is not removed
RawOutbound_KeepSelf(links, filename) == links

\* line 39: set(links) - {filename}
RawOutbound(links, filename) == links \ {filename}

\* lines 33-39: the first loop, over os.listdir(directory)
ExtractLinks ==
    /\ pc = "crawl_extract"
    /\ pages' = [f \in {g \in DOMAIN dir : EndsWithHtml(g)} |-> RawOutbound(dir[f], f)]
    /\ pc' = "crawl_filter"
    /\ UNCHANGED <<dir, corpus, damping, arith, page, n, i, visits, heap, pagerank,
                   new_rank, converged, passes, snapshot, result, error>>

\* lines 42-46: the second loop keeps the links that are keys of pages
FilterLinks ==
    /\ pc = "crawl_filter"
    /\ pages' = [f \in DOMAIN pages |-> {link \in pages[f] : link \in DOMAIN pages}]
    /\ pc' = "crawl_return"
    /\ UNCHANGED <<dir, corpus, damping, arith, page, n, i, visits, heap, pagerank,
                   new_rank, converged, passes, snapshot, result, error>>

\* line 48
CrawlReturn ==
    /\ pc = "crawl_return"
    /\ result' = pages
    /\ pc' = "crawl_done"
    /\ UNCHANGED <<dir, pages, corpus, damping, arith, page, n, i, visits, heap, pagerank,
                   new_rank, converged, passes, snapshot, error>>

InitCrawl ==
    /\ pc = "crawl_extract"
    /\ arith = "real"
    /\ dir \in Directories
    /\ pages = <<>>
    /\ corpus = None /\ damping = None /\ page = None /\ n = None /\ i = None
    /\ visits = None /\ heap = None /\ pagerank = None /\ new_rank = None
    /\ converged = None /\ passes = None /\ snapshot = None
    /\ result = None /\ error = "none"

NextCrawl == ExtractLinks \/ FilterLinks \/ CrawlReturn

SpecCrawl == InitCrawl /\ [][NextCrawl]_vars

-----------------------------------------------------------------------------
(* transition_model *)

\* mutant of transition_model: a page without links is not treated as linking
\* to every page
transition_model_NoDanglingCase(c, pg, damping_factor) ==
    LET links == c[pg]
        total_pages == Cardinality(DOMAIN c)
        base == DivInt(Sub(One, damping_factor), total_pages)
    IN  [p \in DOMAIN c |->
            IF p \in links
            THEN Add(base, DivInt(damping_factor, Cardinality(links)))
            ELSE base]

\* lines 60-77; corpus[page] and probability_distribution[link] are defined
\* because page is a key and the link sets are subsets of the keys
transition_model(c, pg, damping_factor) ==
    LET links == c[pg]
        total_pages == Cardinality(DOMAIN c)
        base == DivInt(Sub(One, damping_factor), total_pages)
    IN  IF links = {}
        THEN [p \in DOMAIN c |-> TrueDiv(1, total_pages)]
        ELSE [p \in DOMAIN c |->
                IF p \in links
                THEN Add(base, DivInt(damping_factor, Cardinality(links)))
                ELSE base]

TransitionCall ==
    /\ pc = "tm_call"
    /\ result' = transition_model(corpus, page, damping)
    /\ pc' = "tm_done"
    /\ UNCHANGED <<dir, pages, corpus, damping, arith, page, n, i, visits, heap, pagerank,
                   new_rank, converged, passes, snapshot, error>>

InitTransition ==
    /\ pc = "tm_call"
    /\ arith = "real"
    /\ corpus \in ClosedGraphs
    /\ page \in DOMAIN corpus
    /\ damping \in Dampings
    /\ dir = None /\ pages = None /\ n = None /\ i = None
    /\ visits = None /\ heap = None /\ pagerank = None /\ new_rank = None
    /\ converged = None /\ passes = None /\ snapshot = None
    /\ result = None /\ error = "none"

NextTransition == TransitionCall

SpecTransition == InitTransition /\ [][NextTransition]_vars

-----------------------------------------------------------------------------
(* sample_pagerank *)

\* line 95: random.choices(keys, weights) returns a key of positive weight
WeightedChoices(model) == {p \in DOMAIN model : model[p].num > 0}

\* mutant of WalkContinues: one draw too many
WalkContinues_OneMore(k, samples) == k <= samples

\* line 93: range(1, n) still has a value when k visits are counted
WalkContinues(k, samples) == k < samples

\* mutant of SampleStart: an empty corpus is let through to the walk
SampleStart_Unguarded ==
    /\ pc = "sp_call"
    /\ \E start \in (IF DOMAIN corpus = {} THEN {None} ELSE DOMAIN corpus) :
         /\ page' = start
         /\ visits' = [p \in DOMAIN corpus |-> IF p = start THEN 1 ELSE 0]
    /\ i' = 1
    /\ pc' = "sp_walk"
    /\ UNCHANGED <<dir, pages, corpus, damping, arith, n, heap, pagerank, new_rank,
                   converged, passes, snapshot, result, error>>

\* lines 89-91: the counters, the start page drawn by random.choice, and its
\* first visit; random.choice raises IndexError on an empty sequence
SampleStart ==
    /\ pc = "sp_call"
    /\ IF DOMAIN corpus = {}
       THEN /\ visits' = [p \in DOMAIN corpus |-> 0]
            /\ error' = "IndexError"
            /\ pc' = "sp_raised"
            /\ UNCHANGED <<page, i>>
       ELSE /\ \E start \in DOMAIN corpus :
                 /\ page' = start
                 /\ visits' = [p \in DOMAIN corpus |-> IF p = start THEN 1 ELSE 0]
            /\ i' = 1
            /\ pc' = "sp_walk"
            /\ UNCHANGED error
    /\ UNCHANGED <<dir, pages, corpus, damping, arith, n, heap, pagerank, new_rank,
                   converged, passes, snapshot, result>>

\* lines 93-96: one iteration of `for _ in range(1, n)`
SampleStep ==
    /\ pc = "sp_walk"
    /\ WalkContinues(i, n)
    /\ \E next \in WeightedChoices(transition_model(corpus, page, damping)) :
         /\ page' = next
         /\ visits' = [visits EXCEPT ![next] = @ + 1]
    /\ i' = i + 1
    /\ UNCHANGED <<pc, dir, pages, corpus, damping, arith, n, heap, pagerank, new_rank,
                   converged, passes, snapshot, result, error>>

\* line 99: count / n for every page
Normalized(counts, samples) ==
    [p \in DOMAIN counts |-> TrueDiv(counts[p], samples)]

\* lines 99-101, once range(1, n) is exhausted
SampleReturn ==
    /\ pc = "sp_walk"
    /\ ~WalkContinues(i, n)
    /\ result' = Normalized(visits, n)
    /\ pc' = "sp_done"
    /\ UNCHANGED <<dir, pages, corpus, damping, arith, page, n, i, visits, heap, pagerank,
                   new_rank, converged, passes, snapshot, error>>

InitSample ==
    /\ pc = "sp_call"
    /\ arith = "real"
    /\ corpus \in CrawledGraphs \cup {EmptyGraph}
    /\ damping \in SampleDampings
    /\ n \in 1..MaxSamples
    /\ page = None /\ i = 0 /\ visits = <<>>
    /\ dir = None /\ pages = None /\ heap = None /\ pagerank = None
    /\ new_rank = None /\ converged = None /\ passes = None /\ snapshot = None
    /\ result = None /\ error = "none"

NextSample == SampleStart \/ SampleStep \/ SampleReturn

SpecSample == InitSample /\ [][NextSample]_vars

-----------------------------------------------------------------------------
(* iterate_pagerank *)

\* line 129: the tolerance 0.001
Threshold == Rat(1, 1000)

\* mutant of RelaxPage: pages without links contribute nothing
RelaxPage_NoDangling(c, d, rank, pg) ==
    LET N == Cardinality(DOMAIN c)
        contribution ==
            [other_page \in DOMAIN c |->
                IF pg \in c[other_page]
                THEN DivInt(rank[other_page], Cardinality(c[other_page]))
                ELSE Zero]
    IN  Add(DivInt(Sub(One, d), N), Mul(d, Total(contribution)))

\* mutant of RelaxPage: the sum of contributions is not damped
RelaxPage_UndampedTotal(c, d, rank, pg) ==
    LET N == Cardinality(DOMAIN c)
        contribution ==
            [other_page \in DOMAIN c |->
                IF pg \in c[other_page] \/ c[other_page] = {}
                THEN DivInt(rank[other_page],
                            IF c[other_page] # {} THEN Cardinality(c[other_page]) ELSE N)
                ELSE Zero]
    IN  Add(DivInt(Sub(One, d), N), Total(contribution))

\* mutant of RelaxPage: every contribution is divided by N, also that of a page with links
RelaxPage_DividesByN(c, d, rank, pg) ==
    LET N == Cardinality(DOMAIN c)
        contribution ==
            [other_page \in DOMAIN c |->
                IF pg \in c[other_page] \/ c[other_page] = {}
                THEN DivInt(rank[other_page], N)
                ELSE Zero]
    IN  Add(DivInt(Sub(One, d), N), Mul(d, Total(contribution)))

\* lines 121-126: the new rank of page pg, computed from the mapping rank
RelaxPage(c, d, rank, pg) ==
    LET N == Cardinality(DOMAIN c)
        contribution ==
            [other_page \in DOMAIN c |->
                IF pg \in c[other_page] \/ c[other_page] = {}
                THEN DivInt(rank[other_page],
                            IF c[other_page] # {} THEN Cardinality(c[other_page]) ELSE N)
                ELSE Zero]
        total == Total(contribution)
    IN  Add(DivInt(Sub(One, d), N), Mul(d, total))

\* line 129: abs(new_rank[page] - pagerank[page]) > 0.001
ChangedTooMuch(new, old) == Greater(AbsVal(Sub(new, old)), Threshold)

\* mutant of StillConverged: the flag is assigned per page, so the last page decides
StillConverged_LastPageDecides(flag, new, old) ==
    ~ChangedTooMuch(new[Cardinality(DOMAIN old)], old[Cardinality(DOMAIN old)])

\* lines 128-130: the flag after the loop over every page of pagerank
StillConverged(flag, new, old) ==
    IF \E p \in DOMAIN old : ChangedTooMuch(new[p], old[p]) THEN FALSE ELSE flag

\* mutant of RankAfterPass: pagerank = new_rank, without the copy
RankAfterPass_Alias(h, pr, nr) == [heap |-> (nr :> h[nr]), ref |-> nr]

\* mutant of RankAfterPass: pagerank is not replaced
RankAfterPass_Stale(h, pr, nr) == [heap |-> h, ref |-> pr]

\* line 132: pagerank = new_rank.copy() binds pagerank to a new dict object
\* with new_rank's entries; the dict it named before becomes unreachable
RankAfterPass(h, pr, nr) ==
    LET o == CHOOSE x \in 1..3 : x \notin {pr, nr}
    IN  [heap |-> (o :> h[nr]) @@ (nr :> h[nr]), ref |-> o]

\* lines 113-117
IterStart ==
    /\ pc = "ip_call"
    /\ LET N == Cardinality(DOMAIN corpus)
       IN  heap' = (1 :> [p \in DOMAIN corpus |-> TrueDiv(1, N)])
                   @@ (2 :> [p \in DOMAIN corpus |-> Zero])
    /\ pagerank' = 1
    /\ new_rank' = 2
    /\ converged' = FALSE
    /\ pc' = "ip_while"
    /\ UNCHANGED <<dir, pages, corpus, damping, arith, page, n, i, visits, passes,
                   snapshot, result, error>>

\* lines 118-119: the loop test succeeds and a pass starts
PassStart ==
    /\ pc = "ip_while"
    /\ ~converged
    /\ converged' = TRUE
    /\ i' = 1
    /\ passes' = IF passes < MaxPasses THEN passes + 1 ELSE passes
    /\ snapshot' = heap[pagerank]
    /\ pc' = "ip_compute"
    /\ UNCHANGED <<dir, pages, corpus, damping, arith, page, n, visits, heap, pagerank,
                   new_rank, result, error>>

\* lines 120-126: one iteration of `for page in corpus`
ComputePage ==
    /\ pc = "ip_compute"
    /\ heap' = [heap EXCEPT ![new_rank][i] =
                    RelaxPage(corpus, damping, heap[pagerank], i)]
    /\ i' = i + 1
    /\ pc' = IF i = Cardinality(DOMAIN corpus) THEN "ip_test" ELSE "ip_compute"
    /\ UNCHANGED <<dir, pages, corpus, damping, arith, page, n, visits, pagerank,
                   new_rank, converged, passes, snapshot, result, error>>

\* lines 128-130
TestConvergence ==
    /\ pc = "ip_test"
    /\ converged' = StillConverged(converged, heap[new_rank], heap[pagerank])
    /\ pc' = "ip_copy"
    /\ UNCHANGED <<dir, pages, corpus, damping, arith, page, n, i, visits, heap, pagerank,
                   new_rank, passes, snapshot, result, error>>

\* line 132
CopyRank ==
    /\ pc = "ip_copy"
    /\ LET r == RankAfterPass(heap, pagerank, new_rank)
       IN  /\ heap' = r.heap
           /\ pagerank' = r.ref
    /\ pc' = "ip_while"
    /\ UNCHANGED <<dir, pages, corpus, damping, arith, page, n, i, visits, new_rank,
                   converged, passes, snapshot, result, error>>

\* lines 118 and 134: the loop test fails and pagerank is returned
IterReturn ==
    /\ pc = "ip_while"
    /\ converged
    /\ result' = heap[pagerank]
    /\ pc' = "ip_done"
    /\ UNCHANGED <<dir, pages, corpus, damping, arith, page, n, i, visits, heap, pagerank,
                   new_rank, converged, passes, snapshot, error>>

\* the runs of the iteration: every crawled graph and every small closed graph
\* with a damping factor of IterDampings, and the unlinked corpora with every
\* damping factor
IterInputs ==
    ((CrawledGraphs \cup SmallClosedGraphs) \X IterDampings)
        \cup (DanglingGraphs \X Dampings)

InitIterate ==
    /\ pc = "ip_call"
    /\ arith = "real"
    /\ \E input \in IterInputs :
         /\ corpus = input[1]
         /\ damping = input[2]
    /\ heap = <<>> /\ pagerank = 0 /\ new_rank = 0 /\ converged = FALSE
    /\ i = 0 /\ passes = 0 /\ snapshot = <<>>
    /\ dir = None /\ pages = None /\ page = None /\ n = None /\ visits = None
    /\ result = None /\ error = "none"

NextIterate ==
    IterStart \/ PassStart \/ ComputePage \/ TestConvergence \/ CopyRank \/ IterReturn

SpecIterate == InitIterate /\ [][NextIterate]_vars

\* the interpreter runs the function to its end: a step that can be taken is taken
SpecIterateFair == SpecIterate /\ WF_vars(NextIterate)

\* iterate_pagerank in Python's floats, on corpora of mutually unlinked pages
InitUnlinked ==
    /\ pc = "ip_call"
    /\ arith = "double"
    /\ corpus \in {Unlinked(k) : k \in 1..MaxUnlinked}
    /\ damping \in DoubleDampings
    /\ heap = <<>> /\ pagerank = 0 /\ new_rank = 0 /\ converged = FALSE
    /\ i = 0 /\ passes = 0 /\ snapshot = <<>>
    /\ dir = None /\ pages = None /\ page = None /\ n = None /\ visits = None
    /\ result = None /\ error = "none"

SpecUnlinked == InitUnlinked /\ [][NextIterate]_vars

-----------------------------------------------------------------------------
(* one relaxation pass from an arbitrary rank mapping *)

\* the state at line 120 of a pass that starts from a rank mapping that sums to 1
InitPass ==
    /\ pc = "ip_compute"
    /\ arith = "real"
    /\ \E k \in 1..MaxPages :
         /\ snapshot \in RankMappings(k)
         /\ corpus \in {g \in CrawledGraphs \cup SmallClosedGraphs : DOMAIN g = 1..k}
    /\ damping \in PassDampings
    /\ heap = (1 :> snapshot) @@ (2 :> [p \in DOMAIN corpus |-> Zero])
    /\ pagerank = 1 /\ new_rank = 2 /\ converged = TRUE
    /\ i = 1 /\ passes = 1
    /\ dir = None /\ pages = None /\ page = None /\ n = None /\ visits = None
    /\ result = None /\ error = "none"

NextPass == ComputePage

SpecPass == InitPass /\ [][NextPass]_vars

-----------------------------------------------------------------------------
(* Properties *)

Keys == DOMAIN corpus

NumPages == Cardinality(DOMAIN corpus)

InOpenUnit(d) == d.num > 0 /\ d.num < d.den

BelowOne(d) == d.num < d.den

\* the sum of the counters of a mapping over 1..k
Count[f \in Seq(Nat)] ==
    IF f = <<>> THEN 0 ELSE Count[SubSeq(f, 1, Len(f) - 1)] + f[Len(f)]

\* a mapping with an entry for every corpus page, no negative entry, and sum 1
IsDistribution(f) ==
    /\ DOMAIN f = Keys
    /\ \A p \in Keys : f[p].num >= 0 /\ f[p].den > 0
    /\ Total(f) = One

\* |x - y| <= 1/1000, on the integers of the difference
WithinTolerance(x, y) ==
    LET delta == Sub(x, y)
    IN  Abs(delta.num) <= delta.den \div 1000

\* C1: for a closed corpus of N >= 1 pages, a key `page` and a damping d = a/b
\* in [0, 1], transition_model returns exactly one entry per corpus page p,
\* equal to 1/N when corpus[page] is empty and otherwise to
\* (1 - d)/N + (d/|corpus[page]| if p is in corpus[page], else 0)
\* = ((b - a)*L + (a*N if linked)) / (b*N*L) with L = |corpus[page]|.
C1_TransitionValues ==
    pc = "tm_done" =>
        LET N == NumPages
            L == Cardinality(corpus[page])
            a == damping.num
            b == damping.den
        IN  /\ DOMAIN result = Keys
            /\ \A p \in Keys :
                 /\ result[p].den > 0
                 /\ IF L = 0
                    THEN result[p].num * N = result[p].den
                    ELSE result[p].num * (b * N * L)
                         = result[p].den
                           * ((b - a) * L + (IF p \in corpus[page] THEN a * N ELSE 0))

C1_Witness ==
    /\ pc = "tm_done"
    /\ NumPages = 3
    /\ damping = DAMPING
    /\ corpus[page] = {1, 2}
    /\ page = 2
    /\ result = <<Rat(19, 40), Rat(19, 40), Rat(1, 20)>>

\* C2: for a non-empty corpus, damping in (0, 1) and n >= 1, the counters of
\* sample_pagerank sum to k + 1 after the k-th draw (i = k + 1 visits counted),
\* to n when the walk ends, and the returned mapping has for every corpus page
\* its counter divided by n, every entry >= 0, and the entries sum to 1.
C2_SampleCounts ==
    (Keys # {} /\ InOpenUnit(damping) /\ n >= 1) =>
        /\ pc = "sp_walk" => Count[visits] = i /\ i <= n
        /\ pc = "sp_done" =>
              /\ Count[visits] = n
              /\ DOMAIN result = Keys
              /\ \A p \in Keys :
                   /\ result[p].den > 0
                   /\ result[p].num * n = visits[p] * result[p].den
                   /\ result[p].num >= 0
              /\ Total(result) = One

C2_Witness ==
    /\ pc = "sp_done"
    /\ n = 3
    /\ damping = DAMPING
    /\ NumPages = 3
    /\ visits = <<2, 0, 1>>
    /\ result = <<Rat(2, 3), Zero, Rat(1, 3)>>

\* C3: for a closed corpus of at least one page and damping in (0, 1), the
\* mapping `pagerank` of iterate_pagerank has an entry for every corpus page,
\* no negative entry and sum 1 from its initialisation on, after every
\* relaxation pass, and so has the returned mapping.
C3_RankIsDistribution ==
    (InOpenUnit(damping) /\ pc # "ip_call") =>
        /\ IsDistribution(heap[pagerank])
        /\ pc = "ip_done" => IsDistribution(result)

C3_Witness ==
    /\ pc = "ip_while"
    /\ passes >= 2
    /\ damping = Rat(1, 2)
    /\ NumPages = 3
    /\ corpus[2] = {}
    /\ heap[pagerank][1] # heap[pagerank][2]
    /\ heap[pagerank][1] # Rat(1, 3)

\* C4: with damping strictly below 1, iterate_pagerank reaches its return:
\* after finitely many passes the flag stays true and the loop ends.
C4_Terminates == BelowOne(damping) => <>(pc = "ip_done" /\ converged)

C4_Witness ==
    /\ pc = "ip_done"
    /\ converged
    /\ passes >= 5
    /\ damping = Rat(1, 2)
    /\ 2 \in corpus[1] /\ 1 \in corpus[2]

\* C5: called with a corpus of zero pages, sample_pagerank ends by raising
\* (IndexError, from random.choice on the empty key list): it neither walks
\* nor returns a mapping.
C5_EmptyCorpusRaises ==
    Keys = {} =>
        /\ pc \in {"sp_call", "sp_raised"}
        /\ pc = "sp_raised" => error = "IndexError" /\ i = 0
        /\ pc = "sp_call" => error = "none"

C5_Witness ==
    /\ Keys = {}
    /\ pc = "sp_raised"
    /\ error = "IndexError"

\* the rounding allowed for: 2^-50, about 8.9e-16
Rounding == RoundToDouble(<<1>>, -50, FALSE)

\* |x - y| <= 2^-50 for doubles x and y
Near(x, y) == ~DLess(Rounding, DAbs(DSub(x, y)))

AllUnlinked == \A q \in Keys : corpus[q] = {}

\* C6 as stated: for k >= 1 pages without any link and damping in [0, 1], the
\* first relaxation pass changes no page's rank, no second pass is started,
\* and every page's returned rank is exactly 1/k, the value 1 / k has in the
\* program.
C6_DanglingUniform ==
    (pc # "ip_call" /\ AllUnlinked) =>
        /\ passes <= 1
        /\ pc \in {"ip_test", "ip_copy"} => heap[new_rank] = snapshot
        /\ pc = "ip_done" =>
              /\ passes = 1
              /\ DOMAIN result = Keys
              /\ \A p \in Keys : result[p] = TrueDiv(1, NumPages)

\* C6 amended: for k >= 1 pages without any link and damping in [0, 1], the
\* first relaxation pass changes every page's rank by at most 2^-50 (the
\* rounding of the floats), no second pass is started, and every page's
\* returned rank is within 2^-50 of 1/k.
C6_DanglingNearUniform ==
    (pc # "ip_call" /\ AllUnlinked) =>
        /\ passes <= 1
        /\ pc \in {"ip_test", "ip_copy"} =>
              \A p \in Keys : Near(heap[new_rank][p], snapshot[p])
        /\ pc = "ip_done" =>
              /\ passes = 1
              /\ DOMAIN result = Keys
              /\ \A p \in Keys : Near(result[p], TrueDiv(1, NumPages))

\* six unlinked pages and damping 0.5: one pass, and the returned rank is the
\* double next above 1/6
C6_Witness ==
    /\ pc = "ip_done"
    /\ NumPages = 6
    /\ AllUnlinked
    /\ damping = ToDouble(Rat(1, 2))
    /\ passes = 1
    /\ \A p \in Keys :
         /\ result[p] # TrueDiv(1, 6)
         /\ DSub(result[p], TrueDiv(1, 6)) = RoundToDouble(<<1>>, -55, FALSE)

\* C7: in the graph crawl returns, every page's outbound set is a subset of
\* the keys other than the page itself: raw links to the page itself and to
\* targets that are not keys are absent.
C7_CrawlClosed ==
    pc = "crawl_done" =>
        /\ DOMAIN result = {f \in DOMAIN dir : EndsWithHtml(f)}
        /\ \A p \in DOMAIN result : result[p] \subseteq (DOMAIN result \ {p})

C7_Witness ==
    /\ pc = "crawl_done"
    /\ OtherFile \in DOMAIN dir
    /\ DOMAIN result = DocNames
    /\ \E p \in DOMAIN result :
         /\ {p, Absent, OtherFile} \subseteq dir[p]
         /\ result[p] # {}

\* C8: a relaxation pass is synchronous: while it runs, `pagerank` and
\* `new_rank` are different objects, the mapping `pagerank` stays what it was
\* when the pass started, and every new rank written so far is the one
\* computed from that starting mapping.
C8_Synchronous ==
    /\ pc \notin {"ip_call"} => pagerank # new_rank
    /\ pc \in {"ip_compute", "ip_test", "ip_copy"} =>
          /\ heap[pagerank] = snapshot
          /\ \A p \in 1..(i - 1) :
               heap[new_rank][p] = RelaxPage(corpus, damping, snapshot, p)

C8_Witness ==
    /\ pc = "ip_compute"
    /\ passes >= 2
    /\ i = 3
    /\ heap[new_rank][1] # snapshot[1]
    /\ heap[new_rank][2] # snapshot[2]
    /\ heap[pagerank] = snapshot

\* C9: at the end of every pass the loop flag is true exactly when every
\* page's rank is within 0.001 of its value before the pass, a pass runs only
\* while the flag is false, and the mapping returned is the one the last pass
\* computed, every page of which is within 0.001 of its previous value.
C9_StopsAtFirstConvergedPass ==
    /\ (pc = "ip_while" /\ passes >= 1) =>
          /\ heap[pagerank] = heap[new_rank]
          /\ converged <=>
                \A p \in Keys : WithinTolerance(heap[pagerank][p], snapshot[p])
    /\ (pc = "ip_while" /\ passes = 0) => ~converged
    /\ pc = "ip_done" =>
          /\ converged
          /\ result = heap[new_rank]
          /\ \A p \in Keys : WithinTolerance(result[p], snapshot[p])

\* a pass after which only one of three pages moved by more than 0.001, so
\* that another pass runs
C9_Witness ==
    /\ pc = "ip_while"
    /\ passes >= 2
    /\ ~converged
    /\ NumPages = 3
    /\ Cardinality({p \in Keys :
                        ~WithinTolerance(heap[pagerank][p], snapshot[p])}) = 1

\* C10: one relaxation pass from a rank mapping that sums to 1 gives every
\* page p the value sum over q of rank[q] * transition_model(corpus, q, d)[p].
C10_PassIsTransition ==
    pc = "ip_test" =>
        \A p \in Keys :
            heap[new_rank][p]
            = Total([q \in Keys |->
                        Mul(snapshot[q], transition_model(corpus, q, damping)[p])])

C10_Witness ==
    /\ pc = "ip_test"
    /\ damping = DAMPING
    /\ NumPages = 3
    /\ corpus = <<{2, 3}, {}, {1}>>
    /\ snapshot = <<Rat(1, 2), Rat(1, 2), Zero>>
    /\ heap[new_rank] # snapshot

====
